---- MODULE Spec2Model ----
(***************************************************************************)
(* Model of the two discovery listeners of the Assimilation CMA:           *)
(*   cma/checksumdiscovery.py  TCPDiscoveryChecksumGenerator               *)
(*   cma/linkdiscovery.py      LinkDiscoveryListener                       *)
(* A listener invocation runs to completion, so each action is one call    *)
(* of a listener's processpkt on one drone with one packet.                *)
(***************************************************************************)
EXTENDS Integers, Sequences, FiniteSets, TLC

VARIABLES
    JSON_OLD_checksums, \* drone -> the drone's JSON_OLD_checksums attribute
    store,              \* the graph store: [nodes, rels]
    out,                \* what the last listener call did (log, events, requests)
    lastpkt,            \* history: drone -> the last checksum packet it delivered
    npkts               \* history: number of __LinkDiscovery packets processed

vars == <<JSON_OLD_checksums, store, out, lastpkt, npkts>>

(***************************************************************************)
(* Bounds and input alphabets                                              *)
(***************************************************************************)
MaxPkts == 2

Drones == {"host1", "host2"}

Designation(drone) == drone

Domain(drone) == "global"

Files == <<"/bin/bash", "/bin/sh", "/usr/bin/passwd">>

Sums == {"sum-x", "sum-y"}

Range(s) == {s[i] : i \in 1..Len(s)}

\* A sequence holding the elements of the finite set S, in some fixed order
RECURSIVE SetToSeq(_)
SetToSeq(S) ==
    IF S = {} THEN <<>>
    ELSE LET x == CHOOSE y \in S : TRUE IN <<x>> \o SetToSeq(S \ {x})

(***************************************************************************)
(* Packets (jsonobj): a record with 'discovertype' and 'data'              *)
(***************************************************************************)
NoPkt == [discovertype |-> "none"]

ChecksumData == UNION {[S -> Sums] : S \in SUBSET Range(Files)}

ChecksumPkts == {[discovertype |-> "checksum", data |-> d] : d \in ChecksumData}

ProcNames == <<"proc1", "proc2">>

\* one process entry of a tcpdiscovery packet
ProcInfos ==
    { [uid |-> "root"],
      [exe |-> "/usr/sbin/sshd"],
      [exe |-> "/usr/bin/java"],
      [exe |-> "/usr/bin/java", cmdline |-> <<"java", "-cp", "/a.jar:/b.jar", "Main">>],
      [exe |-> "/usr/bin/java", cmdline |-> <<"java", "-Xmx1g", "-cp">>],
      [exe |-> "java", cmdline |-> <<"java", "-cp", "/c.jar">>],
      [exe |-> "/usr/sbin/sshd", cmdline |-> <<"sshd", "-cp", "/d.jar">>] }

TcpDiscoveryPkts ==
    {[discovertype |-> "tcpdiscovery", data |-> d] :
        d \in UNION {[S -> ProcInfos] : S \in SUBSET Range(ProcNames)}}

\* packets of a kind neither listener handles
OtherPkts == {[discovertype |-> "os", data |-> <<>>]}

\* JSON values carry their Python type: text, address (pyNetAddr), number, bool
Text(x) == [t |-> "str", v |-> x]

Addr(x) == [t |-> "addr", v |-> x]

Num(x) == [t |-> "int", v |-> x]

Bool(x) == [t |-> "bool", v |-> x]

\* host NICs already in the graph: <<owner, ifname, macaddr>>, in store order
HostNICs ==
    << <<"host1", "eth1", "52-54-00-00-01-01">>,
       <<"host1", "eth0", "52-54-00-00-01-00">>,
       <<"host2", "eth0", "52-54-00-00-02-00">> >>

ChassisMAC == "00-1b-21-00-00-01"

ChassisIP == "10.10.10.5"

MgmtIP == "10.10.10.9"

MgmtMAC == "00-1b-21-00-00-09"

MgmtIP6 == "fe80::21b:21ff:fe00:9"

\* an address of a family other than IPv4, IPv6 and 802
MgmtOther == "addr-of-another-family"

PortMAC == "00-1b-21-00-00-11"

\* what a port says of the host side of its link
PortLinks ==
    { ("ConnectsToHost" :> Text("host1")) @@ ("ConnectsToInterface" :> Text("eth0")),
      ("ConnectsToHost" :> Text("host2")) @@ ("ConnectsToInterface" :> Text("eth0")),
      ("ConnectsToInterface" :> Text("eth0")),
      ("ConnectsToHost" :> Text("host1")),
      ("ConnectsToHost" :> Text("host1")) @@ ("ConnectsToInterface" :> Text("eth9")) }

\* port Gi0/1 reports its own MAC address, port Gi0/2 does not
Port1(link) == ("PortId" :> Text("Gi0/1")) @@ ("sourceMAC" :> Addr(PortMAC)) @@ link

Port2(link) == ("PortId" :> Text("Gi0/2")) @@ link

\* the 'ports' of a packet, in the order ports.keys() yields them
PortLists ==
    {<<>>} \cup {<<Port1(l)>> : l \in PortLinks} \cup {<<Port2(l)>> : l \in PortLinks}
           \cup {<<Port1(l), Port2(m)>> : l, m \in PortLinks}

Optional(key, values) == {<<>>} \cup {key :> x : x \in values}

\* the top-level fields of a __LinkDiscovery packet other than 'ports'
SwitchFields ==
    {("TTL" :> Num("120")) @@ c @@ m :
        c \in Optional("ChassisId", {Text(ChassisMAC), Text(ChassisIP)}),
        m \in Optional("ManagementAddress",
                        {Text(MgmtIP), Addr(MgmtMAC), Text(ChassisIP), Text(MgmtIP6),
                         Text(MgmtOther)})}

PlainSwitch == ("TTL" :> Num("120")) @@ ("ChassisId" :> Text(ChassisMAC))

OnePort == <<Port1(("ConnectsToHost" :> Text("host1")) @@ ("ConnectsToInterface" :> Text("eth0")))>>

\* the data of the __LinkDiscovery packets delivered: every switch with one
\* port, one switch with every port list, with capabilities, without ports
LinkData ==
         {("ports" :> OnePort) @@ f : f \in SwitchFields}
    \cup {("ports" :> pl) @@ PlainSwitch : pl \in PortLists}
    \cup {("ports" :> OnePort) @@ PlainSwitch
             @@ ("SystemCapabilities" :> [bridge |-> FALSE, router |-> TRUE])}
    \cup {PlainSwitch}

LinkDiscoveryPkts == {[discovertype |-> "__LinkDiscovery", data |-> d] : d \in LinkData}

DevNames == <<"eth0", "eth1">>

\* one device entry of a netconfig packet
DevInfos ==
    { [operstate |-> Text("up"), carrier |-> Bool("True"), address |-> Addr("aa-bb-cc-dd-ee-ff")],
      [operstate |-> Text("down"), carrier |-> Bool("True"), address |-> Addr("aa-bb-cc-dd-ee-ff")],
      [operstate |-> Text("up"), carrier |-> Bool("False"), address |-> Addr("aa-bb-cc-dd-ee-ff")],
      [operstate |-> Text("up"), carrier |-> Bool("True"), address |-> Addr("00-00-00-00-00-00")],
      [operstate |-> Text("up"), carrier |-> Bool("True"), address |-> Text("")],
      [operstate |-> Text("up"), carrier |-> Bool("True")],
      [operstate |-> Text("up"), address |-> Addr("aa-bb-cc-dd-ee-ff")] }

NetconfigPkts ==
    {[discovertype |-> "netconfig", data |-> d] :
        d \in UNION {[D -> DevInfos] : D \in SUBSET Range(DevNames)}}

\* what one listener call did; every call starts from this
Quiet(listener, drone, pkt) ==
    [listener |-> listener, drone |-> drone, pkt |-> pkt, changed |-> TRUE,
     compared |-> FALSE, changes |-> <<>>, warnings |-> <<>>, errors |-> <<>>, infos |-> <<>>,
     events |-> <<>>, requests |-> <<>>, raised |-> "none", stderr |-> <<>>]

(***************************************************************************)
(* cma/checksumdiscovery.py                                                *)
(***************************************************************************)
\* hasattr(drone, 'JSON_OLD_checksums') is false
NoSnapshot == [text |-> "unset"]

\* the keys of a data map in the order .keys() yields them
Keys(obj) == SelectSeq(Files, LAMBDA f : f \in DOMAIN obj)

\* str(jsonobj): the JSON text, as the list of its (key, value) members
JSONstr(pkt) ==
    [text |-> "json",
     discovertype |-> pkt.discovertype,
     members |-> [i \in 1..Len(Keys(pkt.data)) |->
                    <<Keys(pkt.data)[i], pkt.data[Keys(pkt.data)[i]]>>]]

\* pyConfigContext(text): the object the JSON text denotes
pyConfigContext(json) ==
    [discovertype |-> json.discovertype,
     data |-> [f \in {json.members[i][1] : i \in 1..Len(json.members)} |->
                 LET i == CHOOSE j \in 1..Len(json.members) : json.members[j][1] = f
                 IN  json.members[i][2]]]

\* compare_loop without its test for equal checksums
RECURSIVE compare_loop_noequaltest(_, _, _, _, _)
compare_loop_noequaltest(designation, oldobj, newobj, i, acc) ==
    IF i > Len(Keys(oldobj)) THEN acc
    ELSE LET oldfile == Keys(oldobj)[i] IN
         IF oldfile \notin DOMAIN newobj
         THEN compare_loop_noequaltest(designation, oldobj, newobj, i + 1, acc)
         ELSE compare_loop_noequaltest(designation, oldobj, newobj, i + 1,
                [warnings |-> Append(acc.warnings,
                     <<designation, oldfile, oldobj[oldfile], newobj[oldfile]>>),
                 changes |-> (oldfile :> <<oldobj[oldfile], newobj[oldfile]>>)
                              @@ acc.changes])

\* the loop of compare_checksums over oldobj.keys(), from key number i on
RECURSIVE compare_loop(_, _, _, _, _)
compare_loop(designation, oldobj, newobj, i, acc) ==
    IF i > Len(Keys(oldobj)) THEN acc
    ELSE LET oldfile == Keys(oldobj)[i] IN
         IF oldfile \notin DOMAIN newobj
         THEN compare_loop(designation, oldobj, newobj, i + 1, acc)
         ELSE LET oldchecksum == oldobj[oldfile]
                  newchecksum == newobj[oldfile]
              IN  IF oldchecksum = newchecksum
                  THEN compare_loop(designation, oldobj, newobj, i + 1, acc)
                  ELSE compare_loop(designation, oldobj, newobj, i + 1,
                         [warnings |-> Append(acc.warnings,
                              <<designation, oldfile, oldchecksum, newchecksum>>),
                          changes |-> (oldfile :> <<oldchecksum, newchecksum>>)
                                       @@ acc.changes])

\* compare_checksums(drone, oldobj, newobj): the log lines and the event
compare_checksums(drone, oldobj, newobj, o) ==
    LET r == compare_loop(Designation(drone), oldobj, newobj, 1,
                          [warnings |-> <<>>, changes |-> <<>>])
        extrainfo == [CHANGETYPE |-> "checksums", changes |-> r.changes]
    IN  [o EXCEPT !.warnings = o.warnings \o r.warnings,
                  !.compared = TRUE,
                  !.changes = r.changes,
                  !.events = Append(o.events,
                       [drone |-> drone, type |-> "OBJUPDATE", extrainfo |-> extrainfo])]

\* processchecksumpkt with one snapshot for all drones: a drone without a
\* snapshot is compared with the snapshot of a drone that has one
processchecksumpkt_sharedsnapshot(drone, snapshot, jsonobj, o) ==
    LET have == {d \in Drones : JSON_OLD_checksums[d] # NoSnapshot}
        shared == IF snapshot # NoSnapshot \/ have = {} THEN snapshot
                  ELSE JSON_OLD_checksums[CHOOSE d \in have : TRUE]
        data == jsonobj.data
        o1 == IF shared # NoSnapshot
              THEN compare_checksums(drone, pyConfigContext(shared).data, data, o)
              ELSE o
    IN  [snapshot |-> JSONstr(jsonobj),
         out |-> [o1 EXCEPT !.stderr = <<"PROCESSING CHECKSUM DATA">>
                      \o (IF shared # NoSnapshot THEN <<"COMPARING CHECKSUM DATA">> ELSE <<>>)
                      \o <<"UPDATING CHECKSUM DATA">>]]

\* processchecksumpkt without its hasattr test: no snapshot compares as an empty one
processchecksumpkt_nohasattr(drone, snapshot, jsonobj, o) ==
    LET olddata == IF snapshot # NoSnapshot THEN pyConfigContext(snapshot).data
                   ELSE [f \in {} |-> "sum-x"]
    IN  [snapshot |-> JSONstr(jsonobj),
         out |-> compare_checksums(drone, olddata, jsonobj.data, o)]

\* processchecksumpkt storing the snapshot on the first packet only
processchecksumpkt_keepfirst(drone, snapshot, jsonobj, o) ==
    IF snapshot # NoSnapshot
    THEN [snapshot |-> snapshot,
          out |-> compare_checksums(drone, pyConfigContext(snapshot).data, jsonobj.data, o)]
    ELSE [snapshot |-> JSONstr(jsonobj), out |-> o]

\* processchecksumpkt: [snapshot, out] after the call
processchecksumpkt(drone, snapshot, jsonobj, o) ==
    LET data == jsonobj.data
        o1 == IF snapshot # NoSnapshot
              THEN compare_checksums(drone, pyConfigContext(snapshot).data, data, o)
              ELSE o
    IN  [snapshot |-> JSONstr(jsonobj),
         out |-> [o1 EXCEPT !.stderr = <<"PROCESSING CHECKSUM DATA">>
                      \o (IF snapshot # NoSnapshot THEN <<"COMPARING CHECKSUM DATA">> ELSE <<>>)
                      \o <<"UPDATING CHECKSUM DATA">>]]

\* exename.endswith('/java')
EndsWithSlashJava(exename) == exename \in {"/usr/bin/java", "/opt/jdk/bin/java"}

\* s.split(':')
Split(s) ==
    CASE s = "/a.jar:/b.jar" -> <<"/a.jar", "/b.jar">>
      [] OTHER -> <<s>>

\* the loop over range(0, len(cmdline)), from index j on (j counts from 1 here)
RECURSIVE cmdline_loop(_, _, _)
cmdline_loop(cmdline, j, filelist) ==
    IF j > Len(cmdline) THEN filelist
    ELSE IF cmdline[j] = "-cp" /\ j < Len(cmdline)
         THEN filelist \o Split(cmdline[j + 1])
         ELSE cmdline_loop(cmdline, j + 1, filelist)

\* the loop over data.keys(), from process number i on
RECURSIVE proc_loop(_, _, _)
proc_loop(data, i, filelist) ==
    IF i > Len(ProcNames) THEN filelist
    ELSE IF ProcNames[i] \notin DOMAIN data THEN proc_loop(data, i + 1, filelist)
    ELSE LET procinfo == data[ProcNames[i]] IN
         IF "exe" \notin DOMAIN procinfo THEN proc_loop(data, i + 1, filelist)
         ELSE LET exename == procinfo.exe
                  fl1 == Append(filelist, exename)
              IN  IF EndsWithSlashJava(exename)
                  THEN IF "cmdline" \notin DOMAIN procinfo
                       THEN proc_loop(data, i + 1, fl1)
                       ELSE proc_loop(data, i + 1,
                                      cmdline_loop(procinfo.cmdline, 1, fl1))
                  ELSE proc_loop(data, i + 1, fl1)

ASSIM_sumcmds ==
    <<"/usr/bin/sha256sum", "/usr/bin/sha224sum", "/usr/bin/sha384sum",
      "/usr/bin/sha512sum", "/usr/bin/sha1sum", "/usr/bin/md5sum",
      "/usr/bin/cksum", "/usr/bin/crc32">>

ASSIM_filelist == <<"/bin/sh", "/bin/bash", "/bin/login", "/usr/bin/passwd", "/tmp/foobar">>

\* processtcpdiscoverypkt appending to the file list of the request before it
processtcpdiscoverypkt_accumulate(drone, jsonobj, o) ==
    LET before == IF out.listener = "checksum" /\ out.pkt.discovertype = "tcpdiscovery"
                  THEN out.requests[1].params.tree.parameters.ASSIM_filelist
                  ELSE ASSIM_filelist
        filelist == proc_loop(jsonobj.data, 1, before)
        checksumparameters ==
            [type |-> "checksums",
             parameters |-> [ASSIM_sumcmds |-> ASSIM_sumcmds,
                             ASSIM_filelist |-> filelist]]
    IN  [o EXCEPT !.requests = Append(o.requests,
                      [drone |-> drone, name |-> "_auto-checksums", interval |-> 30,
                       params |-> [text |-> "json", tree |-> checksumparameters]]),
                  !.stderr = Append(o.stderr, "REQUESTING CHECKSUM MONITORING OF")]

\* processtcpdiscoverypkt: out after the call
processtcpdiscoverypkt(drone, jsonobj, o) ==
    LET filelist == proc_loop(jsonobj.data, 1, ASSIM_filelist)
        checksumparameters ==
            [type |-> "checksums",
             parameters |-> [ASSIM_sumcmds |-> ASSIM_sumcmds,
                             ASSIM_filelist |-> filelist]]
    IN  [o EXCEPT !.requests = Append(o.requests,
                      [drone |-> drone, name |-> "_auto-checksums", interval |-> 30,
                       params |-> [text |-> "json", tree |-> checksumparameters]]),
                  !.stderr = Append(o.stderr, "REQUESTING CHECKSUM MONITORING OF")]

\* processpkt keeping every packet it is handed as the drone's snapshot
checksum_processpkt_storeall(drone, snapshot, jsonobj) ==
    LET o == Quiet("checksum", drone, jsonobj) IN
    IF jsonobj.discovertype = "tcpdiscovery"
    THEN [snapshot |-> JSONstr(jsonobj), out |-> processtcpdiscoverypkt(drone, jsonobj, o)]
    ELSE IF jsonobj.discovertype = "checksum"
    THEN processchecksumpkt(drone, snapshot, jsonobj, o)
    ELSE [snapshot |-> JSONstr(jsonobj),
          out |-> [o EXCEPT !.stderr = Append(o.stderr, "OOPS! bad packet type")]]

\* TCPDiscoveryChecksumGenerator.processpkt: [snapshot, out] after the call
checksum_processpkt(drone, snapshot, jsonobj) ==
    LET o == Quiet("checksum", drone, jsonobj) IN
    IF jsonobj.discovertype = "tcpdiscovery"
    THEN [snapshot |-> snapshot, out |-> processtcpdiscoverypkt(drone, jsonobj, o)]
    ELSE IF jsonobj.discovertype = "checksum"
    THEN processchecksumpkt(drone, snapshot, jsonobj, o)
    ELSE [snapshot |-> snapshot,
          out |-> [o EXCEPT !.stderr = Append(o.stderr, "OOPS! bad packet type")]]

(***************************************************************************)
(* The graph store (store.py, graphnodes.py), as the listeners use it      *)
(***************************************************************************)
\* the attributes that identify a node of a class
KeyAttrs(cls) ==
    CASE cls = "NICNode" -> <<"domain", "macaddr", "scope", "ifname">>
      [] cls = "IPaddrNode" -> <<"domain", "ipaddr", "subnet", "cidrmask">>
      [] OTHER -> <<"domain", "designation">>

KeyOf(cls, attrs) == [i \in 1..Len(KeyAttrs(cls)) |-> attrs[KeyAttrs(cls)[i]].v]

\* the nodes of class cls with the key of attrs
NodesWithKey(st, cls, attrs) ==
    {i \in 1..Len(st.nodes) :
        st.nodes[i].cls = cls /\ KeyOf(cls, st.nodes[i].attrs) = KeyOf(cls, attrs)}

Min(S) == CHOOSE x \in S : \A y \in S : x <= y

\* store.load_or_create(cls, **attrs): [store, node]
load_or_create(st, cls, attrs) ==
    LET found == NodesWithKey(st, cls, attrs) IN
    IF found # {}
    THEN [store |-> [st EXCEPT !.nodes[Min(found)].attrs = attrs @@ @],
          node |-> Min(found)]
    ELSE [store |-> [st EXCEPT !.nodes =
                        Append(@, [cls |-> cls, attrs |-> attrs, roles |-> {}])],
          node |-> Len(st.nodes) + 1]

RelsBetween(st, a, rtype, b) ==
    {i \in 1..Len(st.rels) :
        st.rels[i].from = a /\ st.rels[i].type = rtype /\ st.rels[i].to = b}

\* store.relate(a, rtype, b, props): update the relationship or create it
relate(st, a, rtype, b, props) ==
    LET found == RelsBetween(st, a, rtype, b) IN
    IF found # {}
    THEN [st EXCEPT !.rels[Min(found)].props = props @@ @]
    ELSE [st EXCEPT !.rels =
             Append(@, [from |-> a, type |-> rtype, to |-> b, props |-> props])]

\* store.relate_new(a, rtype, b): create the relationship if there is none
relate_new(st, a, rtype, b) ==
    IF RelsBetween(st, a, rtype, b) # {} THEN st
    ELSE [st EXCEPT !.rels =
             Append(@, [from |-> a, type |-> rtype, to |-> b, props |-> <<>>])]

\* store.load_related(a, rtype): the nodes a is related to, in store order
load_related(st, a, rtype) ==
    LET found == SelectSeq(st.rels, LAMBDA r : r.from = a /\ r.type = rtype)
    IN  [i \in 1..Len(found) |-> found[i].to]

\* node.addrole(role)
addrole(st, node, role) == [st EXCEPT !.nodes[node].roles = @ \cup {role}]

\* the node of a drone
DroneNode(st, drone) ==
    Min(NodesWithKey(st, "Drone",
            [domain |-> Text(Domain(drone)), designation |-> Text(Designation(drone))]))

\* pyNetAddr(text).addrtype()
AddrType(text) ==
    CASE text \in {ChassisIP, MgmtIP} -> "ADDR_FAMILY_IPV4"
      [] text = MgmtIP6 -> "ADDR_FAMILY_IPV6"
      [] text \in {ChassisMAC, MgmtMAC, PortMAC} -> "ADDR_FAMILY_802"
      [] OTHER -> "other"

\* str(value)
str(value) == [t |-> "str", v |-> value.v]

(***************************************************************************)
(* cma/linkdiscovery.py                                                    *)
(* A call's context c is [store, out]; an escaped exception is out.raised  *)
(***************************************************************************)
\* wire_port dropping the wiredto relationships the host NIC had to other ports
wire_port_dropold(drone, nicnode, thisport, c) ==
    IF "ConnectsToHost" \notin DOMAIN thisport
    THEN [c EXCEPT !.out.errors = Append(@, "OOPS! got an exception...")]
    ELSE IF thisport.ConnectsToHost.v # Designation(drone)
    THEN [c EXCEPT !.out.raised = "AssertionError"]
    ELSE IF "ConnectsToInterface" \notin DOMAIN thisport
    THEN [c EXCEPT !.out.errors = Append(@, "OOPS! got an exception...")]
    ELSE LET matchif == thisport.ConnectsToInterface
             niclist == load_related(c.store, DroneNode(c.store, drone), "nicowner")
             hits == {i \in 1..Len(niclist) :
                         c.store.nodes[niclist[i]].attrs.ifname.v = matchif.v}
         IN  IF hits = {} THEN c
             ELSE LET dronenic == niclist[Min(hits)]
                      kept == SelectSeq(c.store.rels,
                                 LAMBDA r : ~(r.type = "wiredto" /\ r.to = dronenic
                                              /\ r.from # nicnode))
                  IN  [c EXCEPT !.store =
                          relate_new([c.store EXCEPT !.rels = kept],
                                     nicnode, "wiredto", dronenic)]

\* the body of 'try' for one port: [store, out] after it
wire_port(drone, nicnode, thisport, c) ==
    IF "ConnectsToHost" \notin DOMAIN thisport
    THEN [c EXCEPT !.out.errors = Append(@, "OOPS! got an exception...")]
    ELSE IF thisport.ConnectsToHost.v # Designation(drone)
    THEN [c EXCEPT !.out.raised = "AssertionError"]
    ELSE IF "ConnectsToInterface" \notin DOMAIN thisport
    THEN [c EXCEPT !.out.errors = Append(@, "OOPS! got an exception...")]
    ELSE LET matchif == thisport.ConnectsToInterface
             niclist == load_related(c.store, DroneNode(c.store, drone), "nicowner")
             hits == {i \in 1..Len(niclist) :
                         c.store.nodes[niclist[i]].attrs.ifname.v = matchif.v}
         IN  IF hits = {} THEN c
             ELSE [c EXCEPT !.store = relate_new(@, nicnode, "wiredto", niclist[Min(hits)])]

\* port_nic creating a node without looking for the port's node first
port_nic_create(drone, chassisid, thisport, st) ==
    [store |-> [st EXCEPT !.nodes = Append(@,
                   [cls |-> "NICNode", roles |-> {},
                    attrs |-> [domain |-> Text(Domain(drone)),
                               macaddr |-> IF "sourceMAC" \in DOMAIN thisport
                                           THEN thisport.sourceMAC ELSE chassisid,
                               scope |-> Text("global"),
                               json |-> [t |-> "json", v |-> thisport],
                               ifname |-> thisport.PortId] @@ thisport])],
     node |-> Len(st.nodes) + 1]

\* the attributes and the node of one port: [store, node]
port_nic(drone, chassisid, thisport, st) ==
    LET attrs == [key \in DOMAIN thisport |->
                    IF thisport[key].t = "addr" THEN str(thisport[key]) ELSE thisport[key]]
        nicmac == IF "sourceMAC" \in DOMAIN thisport THEN thisport.sourceMAC ELSE chassisid
    IN  load_or_create(st, "NICNode",
            [domain |-> Text(Domain(drone)), macaddr |-> nicmac, scope |-> Text("global"),
             json |-> [t |-> "json", v |-> thisport], ifname |-> thisport.PortId] @@ attrs)

\* the loop of _process_ports relating the switch to a port only after the
\* port's host side was handled
RECURSIVE process_ports_ownlater(_, _, _, _, _, _)
process_ports_ownlater(drone, switch, chassisid, ports, i, c) ==
    IF i > Len(ports) \/ c.out.raised # "none" THEN c
    ELSE LET thisport == ports[i]
             r == port_nic(drone, chassisid, thisport, c.store)
             c1 == wire_port(drone, r.node, thisport, [c EXCEPT !.store = r.store])
             c2 == IF c1.out.raised # "none" THEN c1
                   ELSE [c1 EXCEPT !.store =
                            relate(@, switch, "nicowner", r.node, [causes |-> TRUE])]
         IN  process_ports_ownlater(drone, switch, chassisid, ports, i + 1, c2)

\* the loop of _process_ports over ports.keys(), from port number i on
RECURSIVE process_ports(_, _, _, _, _, _)
process_ports(drone, switch, chassisid, ports, i, c) ==
    IF i > Len(ports) \/ c.out.raised # "none" THEN c
    ELSE LET thisport == ports[i]
             r == port_nic(drone, chassisid, thisport, c.store)
             st1 == relate(r.store, switch, "nicowner", r.node, [causes |-> TRUE])
         IN  process_ports(drone, switch, chassisid, ports, i + 1,
                 wire_port(drone, r.node, thisport, [c EXCEPT !.store = st1]))

\* _process_mgmt_addr taking the chassis id for a MAC address without a test
process_mgmt_addr_notypetest(switch, chassisid, attrs, c) ==
    LET mgmtaddr == attrs.ManagementAddress
        atype == AddrType(mgmtaddr.v)
        domain == c.store.nodes[switch].attrs.domain
    IN  IF atype \in {"ADDR_FAMILY_IPV4", "ADDR_FAMILY_IPV6"}
        THEN LET r1 == load_or_create(c.store, "NICNode",
                          [domain |-> domain, macaddr |-> chassisid,
                           scope |-> Text("global"), ifname |-> Text("(adminNIC)")])
                 r2 == load_or_create(r1.store, "IPaddrNode",
                          [domain |-> domain, cidrmask |-> Text("unknown"),
                           ipaddr |-> mgmtaddr, subnet |-> [t |-> "none", v |-> "None"]])
                 st3 == relate_new(r2.store, switch, "nicowner", r1.node)
             IN  [c EXCEPT !.store = relate_new(st3, r1.node, "ipowner", r2.node)]
        ELSE IF atype = "ADDR_FAMILY_802"
        THEN LET r == load_or_create(c.store, "NICNode",
                          [domain |-> domain, macaddr |-> mgmtaddr,
                           scope |-> Text("global"), ifname |-> Text("(ManagementAddress)")])
             IN  [c EXCEPT !.store = relate_new(r.store, switch, "nicowner", r.node)]
        ELSE c

\* _process_mgmt_addr
process_mgmt_addr(switch, chassisid, attrs, c) ==
    LET mgmtaddr == attrs.ManagementAddress
        atype == AddrType(mgmtaddr.v)
        domain == c.store.nodes[switch].attrs.domain
    IN  IF atype \in {"ADDR_FAMILY_IPV4", "ADDR_FAMILY_IPV6"}
        THEN IF AddrType(chassisid.v) = "ADDR_FAMILY_802"
             THEN LET r1 == load_or_create(c.store, "NICNode",
                               [domain |-> domain, macaddr |-> chassisid,
                                scope |-> Text("global"), ifname |-> Text("(adminNIC)")])
                      r2 == load_or_create(r1.store, "IPaddrNode",
                               [domain |-> domain, cidrmask |-> Text("unknown"),
                                ipaddr |-> mgmtaddr, subnet |-> [t |-> "none", v |-> "None"]])
                      st3 == relate_new(r2.store, switch, "nicowner", r1.node)
                  IN  [c EXCEPT !.store = relate_new(st3, r1.node, "ipowner", r2.node)]
             ELSE LET c1 == [c EXCEPT !.out.infos = Append(@, "LLDP ATTRS")]
                  IN  IF mgmtaddr.v # chassisid.v
                      THEN [c1 EXCEPT !.out.warnings = @ \o
                               <<"Chassis ID not a MAC addr and not the same as mgmt addr",
                                 "Chassis ID != mgmt addr">>]
                      ELSE c1
        ELSE IF atype = "ADDR_FAMILY_802"
        THEN LET r == load_or_create(c.store, "NICNode",
                          [domain |-> domain, macaddr |-> mgmtaddr,
                           scope |-> Text("global"), ifname |-> Text("(ManagementAddress)")])
             IN  [c EXCEPT !.store = relate_new(r.store, switch, "nicowner", r.node)]
        ELSE c

\* the roles of a switch, from its SystemCapabilities
RECURSIVE addroles(_, _, _)
addroles(st, switch, roles) ==
    IF roles = {} THEN st
    ELSE LET role == CHOOSE r \in roles : TRUE
         IN  addroles(addrole(st, switch, role), switch, roles \ {role})

\* the attributes of the switch node
switch_attrs(drone, data) ==
    [designation |-> data.ChassisId, domain |-> Text(Domain(drone))]
    @@ [key \in DOMAIN data \ {"ports", "SystemCapabilities"} |->
          IF data[key].t \in {"int", "float"} THEN data[key] ELSE str(data[key])]

\* processpkt_linkdiscovery without its test for a missing ChassisId
processpkt_linkdiscovery_nochassistest(drone, jsonobj, c) ==
    IF "ChassisId" \notin DOMAIN jsonobj.data
    THEN [c EXCEPT !.out.raised = "KeyError"]
    ELSE process_ports(drone,
             load_or_create(c.store, "SystemNode", switch_attrs(drone, jsonobj.data)).node,
             jsonobj.data.ChassisId,
             IF "ports" \in DOMAIN jsonobj.data THEN jsonobj.data.ports ELSE <<>>, 1,
             [c EXCEPT !.store =
                 load_or_create(c.store, "SystemNode", switch_attrs(drone, jsonobj.data)).store])

\* processpkt_linkdiscovery
processpkt_linkdiscovery(drone, jsonobj, c) ==
    LET data == jsonobj.data IN
    IF "ChassisId" \notin DOMAIN data
    THEN [c EXCEPT !.out.warnings =
             Append(@, "Chassis ID missing from discovery data from switch")]
    ELSE LET chassisid == data.ChassisId
             attrs == switch_attrs(drone, data)
             r == load_or_create(c.store, "SystemNode", attrs)
             switch == r.node
             st1 == IF "SystemCapabilities" \notin DOMAIN data
                    THEN addrole(r.store, switch, "bridge")
                    ELSE LET caps == data.SystemCapabilities
                         IN  addroles(r.store, switch, {role \in DOMAIN caps : caps[role]})
             c1 == [c EXCEPT !.store = st1]
             c2 == IF "ManagementAddress" \in DOMAIN attrs
                   THEN process_mgmt_addr(switch, chassisid, attrs, c1)
                   ELSE c1
         IN  IF "ports" \notin DOMAIN data
             THEN [c2 EXCEPT !.out.raised = "KeyError"]
             ELSE process_ports(drone, switch, chassisid, data.ports, 1, c2)

\* discovery_indicates_link_is_up without its test of the carrier
discovery_indicates_link_is_up_nocarrier(devinfo) ==
    /\ "operstate" \in DOMAIN devinfo /\ "address" \in DOMAIN devinfo
    /\ str(devinfo.operstate).v = "up"
    /\ str(devinfo.address).v # "00-00-00-00-00-00"
    /\ str(devinfo.address).v # ""

\* discovery_indicates_link_is_up(devinfo)
discovery_indicates_link_is_up(devinfo) ==
    /\ "operstate" \in DOMAIN devinfo /\ "carrier" \in DOMAIN devinfo
    /\ "address" \in DOMAIN devinfo
    /\ str(devinfo.operstate).v = "up" /\ str(devinfo.carrier).v = "True"
    /\ str(devinfo.address).v # "00-00-00-00-00-00"
    /\ str(devinfo.address).v # ""

\* ConfigFile.agent_params(config, 'discovery', '#SWITCH', designation)
agent_params(designation) ==
    [agent |-> "#SWITCH", designation |-> designation, repeat |-> "config"]

\* the parameters of the discovery of one device
switch_params(init_params, devname) ==
    [CONFIGNAME_INSTANCE |-> "#SWITCH_" \o devname,
     CONFIGNAME_DEVNAME |-> devname,
     CONFIGNAME_SWPROTOS |-> <<"lldp", "cdp">>] @@ init_params

\* the loop of processpkt_netconfig over data.keys(), from device number i on
RECURSIVE netconfig_loop(_, _, _, _)
netconfig_loop(init_params, data, i, discovery_args) ==
    IF i > Len(DevNames) THEN discovery_args
    ELSE IF DevNames[i] \in DOMAIN data /\ discovery_indicates_link_is_up(data[DevNames[i]])
    THEN netconfig_loop(init_params, data, i + 1,
             Append(discovery_args, switch_params(init_params, DevNames[i])))
    ELSE netconfig_loop(init_params, data, i + 1, discovery_args)

\* processpkt_netconfig asking for the discovery of each device by itself
processpkt_netconfig_onebyone(drone, jsonobj, c) ==
    LET args == netconfig_loop(agent_params(Designation(drone)), jsonobj.data, 1, <<>>)
    IN  [c EXCEPT !.out.requests =
            @ \o [i \in 1..Len(args) |-> [drone |-> drone, batch |-> <<args[i]>>]]]

\* processpkt_netconfig
processpkt_netconfig(drone, jsonobj, c) ==
    LET init_params == agent_params(Designation(drone))
        discovery_args == netconfig_loop(init_params, jsonobj.data, 1, <<>>)
    IN  IF discovery_args # <<>>
        THEN [c EXCEPT !.out.requests =
                 Append(@, [drone |-> drone, batch |-> discovery_args])]
        ELSE c

\* processpkt without its test of discoverychanged
link_processpkt_noflagtest(drone, jsonobj, discoverychanged, st) ==
    LET c == [store |-> st,
              out |-> [Quiet("link", drone, jsonobj) EXCEPT !.changed = discoverychanged]]
    IN  IF jsonobj.discovertype = "__LinkDiscovery"
        THEN processpkt_linkdiscovery(drone, jsonobj, c)
        ELSE IF jsonobj.discovertype = "netconfig"
        THEN processpkt_netconfig(drone, jsonobj, c)
        ELSE [c EXCEPT !.out.stderr = Append(@, "OOPS! bad packet type")]

\* LinkDiscoveryListener.processpkt: [store, out] after the call
link_processpkt(drone, jsonobj, discoverychanged, st) ==
    LET c == [store |-> st,
              out |-> [Quiet("link", drone, jsonobj) EXCEPT !.changed = discoverychanged]]
    IN  IF ~discoverychanged THEN c
        ELSE IF jsonobj.discovertype = "__LinkDiscovery"
        THEN processpkt_linkdiscovery(drone, jsonobj, c)
        ELSE IF jsonobj.discovertype = "netconfig"
        THEN processpkt_netconfig(drone, jsonobj, c)
        ELSE [c EXCEPT !.out.stderr = Append(@, "OOPS! bad packet type")]

(***************************************************************************)
(* Initial state                                                           *)
(***************************************************************************)
\* the drones and their NICs, as earlier discovery stored them
InitialStore ==
    LET d == SetToSeq(Drones)
        nd == Len(d)
    IN  [nodes |-> [i \in 1..nd |->
                      [cls |-> "Drone", roles |-> {"drone"},
                       attrs |-> [domain |-> Text(Domain(d[i])),
                                  designation |-> Text(Designation(d[i]))]]]
                   \o [i \in 1..Len(HostNICs) |->
                      [cls |-> "NICNode", roles |-> {},
                       attrs |-> [domain |-> Text(Domain(HostNICs[i][1])),
                                  macaddr |-> Text(HostNICs[i][3]), scope |-> Text("global"),
                                  ifname |-> Text(HostNICs[i][2])]]],
         rels |-> [i \in 1..Len(HostNICs) |->
                      [from |-> CHOOSE j \in 1..nd : d[j] = HostNICs[i][1],
                       type |-> "nicowner", to |-> nd + i, props |-> <<>>]]]

Init ==
    /\ JSON_OLD_checksums = [d \in Drones |-> NoSnapshot]
    /\ store = InitialStore
    /\ out = Quiet("none", "host1", NoPkt)
    /\ lastpkt = [d \in Drones |-> NoPkt]
    /\ npkts = 0

(***************************************************************************)
(* Actions of the checksum listener                                        *)
(***************************************************************************)
\* the checksum listener is handed a 'checksum' packet
ChecksumPkt ==
    \E drone \in Drones, jsonobj \in ChecksumPkts :
        LET r == checksum_processpkt(drone, JSON_OLD_checksums[drone], jsonobj)
        IN  /\ JSON_OLD_checksums' = [JSON_OLD_checksums EXCEPT ![drone] = r.snapshot]
            /\ out' = r.out
            /\ lastpkt' = [lastpkt EXCEPT ![drone] = jsonobj]
            /\ UNCHANGED <<store, npkts>>

\* the checksum listener is handed a 'tcpdiscovery' packet
TcpDiscoveryPkt ==
    \E drone \in Drones, jsonobj \in TcpDiscoveryPkts :
        LET r == checksum_processpkt(drone, JSON_OLD_checksums[drone], jsonobj)
        IN  /\ JSON_OLD_checksums' = [JSON_OLD_checksums EXCEPT ![drone] = r.snapshot]
            /\ out' = r.out
            /\ UNCHANGED <<store, lastpkt, npkts>>

\* the checksum listener is handed a packet of a kind it does not handle
ChecksumOtherPkt ==
    \E drone \in Drones, jsonobj \in OtherPkts :
        LET r == checksum_processpkt(drone, JSON_OLD_checksums[drone], jsonobj)
        IN  /\ JSON_OLD_checksums' = [JSON_OLD_checksums EXCEPT ![drone] = r.snapshot]
            /\ out' = r.out
            /\ UNCHANGED <<store, lastpkt, npkts>>

NextChecksum == ChecksumPkt \/ ChecksumOtherPkt

\* checksum packets (and stray packets) delivered to the checksum listener
SpecChecksum == Init /\ [][NextChecksum]_vars

NextTcpDiscovery == TcpDiscoveryPkt \/ ChecksumOtherPkt

\* tcpdiscovery packets (and stray packets) delivered to the checksum listener
SpecTcpDiscovery == Init /\ [][NextTcpDiscovery]_vars

\* the packets of both kinds in one run: checksums of two files, one process
SomeChecksumPkts == {p \in ChecksumPkts : DOMAIN p.data \subseteq {Files[1], Files[2]}}

SomeTcpDiscoveryPkts == {p \in TcpDiscoveryPkts : DOMAIN p.data \subseteq {ProcNames[1]}}

\* the checksum listener is handed a 'checksum' packet, between packets of other kinds
SomeChecksumPkt ==
    \E drone \in Drones, jsonobj \in SomeChecksumPkts :
        LET r == checksum_processpkt(drone, JSON_OLD_checksums[drone], jsonobj)
        IN  /\ JSON_OLD_checksums' = [JSON_OLD_checksums EXCEPT ![drone] = r.snapshot]
            /\ out' = r.out
            /\ lastpkt' = [lastpkt EXCEPT ![drone] = jsonobj]
            /\ UNCHANGED <<store, npkts>>

\* the checksum listener is handed a 'tcpdiscovery' packet, between packets of other kinds
SomeTcpDiscoveryPkt ==
    \E drone \in Drones, jsonobj \in SomeTcpDiscoveryPkts :
        LET r == checksum_processpkt(drone, JSON_OLD_checksums[drone], jsonobj)
        IN  /\ JSON_OLD_checksums' = [JSON_OLD_checksums EXCEPT ![drone] = r.snapshot]
            /\ out' = r.out
            /\ UNCHANGED <<store, lastpkt, npkts>>

NextChecksumListener == SomeChecksumPkt \/ SomeTcpDiscoveryPkt \/ ChecksumOtherPkt

\* packets of every kind delivered to the checksum listener
SpecChecksumListener == Init /\ [][NextChecksumListener]_vars

(***************************************************************************)
(* Actions of the link discovery listener                                  *)
(***************************************************************************)
\* the link listener is handed a changed '__LinkDiscovery' packet
LinkDiscoveryPkt ==
    \E drone \in Drones, jsonobj \in LinkDiscoveryPkts :
        LET r == link_processpkt(drone, jsonobj, TRUE, store)
        IN  /\ npkts < MaxPkts
            /\ npkts' = npkts + 1
            /\ store' = r.store
            /\ out' = r.out
            /\ UNCHANGED <<JSON_OLD_checksums, lastpkt>>

NextLink == LinkDiscoveryPkt

\* __LinkDiscovery packets delivered to the link discovery listener
SpecLink == Init /\ [][NextLink]_vars

\* packets delivered with discoverychanged false: switches with a port and a
\* management address, and devices that are up
UnchangedPkts ==
         {p \in LinkDiscoveryPkts :
             /\ "ManagementAddress" \in DOMAIN p.data
             /\ p.data.ManagementAddress = Text(MgmtIP)}
    \cup {p \in NetconfigPkts :
             /\ DOMAIN p.data # {}
             /\ \A dev \in DOMAIN p.data : discovery_indicates_link_is_up(p.data[dev])}

\* the link listener is handed a packet whose discovery data did not change
UnchangedPkt ==
    \E drone \in Drones, jsonobj \in UnchangedPkts :
        LET r == link_processpkt(drone, jsonobj, FALSE, store)
        IN  /\ npkts < MaxPkts
            /\ npkts' = npkts + 1
            /\ store' = r.store
            /\ out' = r.out
            /\ UNCHANGED <<JSON_OLD_checksums, lastpkt>>

NextLinkFlag == LinkDiscoveryPkt \/ UnchangedPkt

\* changed __LinkDiscovery packets and unchanged packets delivered to the link
\* discovery listener
SpecLinkFlag == Init /\ [][NextLinkFlag]_vars

\* the link listener is handed a 'netconfig' packet, changed or not
NetconfigPkt ==
    \E drone \in Drones, jsonobj \in NetconfigPkts, discoverychanged \in BOOLEAN :
        LET r == link_processpkt(drone, jsonobj, discoverychanged, store)
        IN  /\ store' = r.store
            /\ out' = r.out
            /\ UNCHANGED <<JSON_OLD_checksums, lastpkt, npkts>>

\* the link listener is handed a packet of a kind it does not handle
LinkOtherPkt ==
    \E drone \in Drones, jsonobj \in OtherPkts, discoverychanged \in BOOLEAN :
        LET r == link_processpkt(drone, jsonobj, discoverychanged, store)
        IN  /\ store' = r.store
            /\ out' = r.out
            /\ UNCHANGED <<JSON_OLD_checksums, lastpkt, npkts>>

NextNetconfig == NetconfigPkt \/ LinkOtherPkt

\* netconfig packets (and stray packets) delivered to the link discovery listener
SpecNetconfig == Init /\ [][NextNetconfig]_vars

(***************************************************************************)
(* Properties of the checksum listener                                     *)
(***************************************************************************)
\* the step is a call of processchecksumpkt (out' describes the call)
IsChecksumCall == out'.listener = "checksum" /\ out'.pkt.discovertype = "checksum"

\* C2: when a checksum packet arrives for a drone that has a snapshot, the
\* changes map holds exactly the keys present in the old and in the new data
\* whose values differ, each mapped to (old value, new value); keys present in
\* only one of the two maps are not reported; one warning is logged per change.
C2_ChangesAreCommonKeysThatDiffer ==
    [][ (IsChecksumCall /\ JSON_OLD_checksums[out'.drone] # NoSnapshot) =>
          LET old == pyConfigContext(JSON_OLD_checksums[out'.drone]).data
              new == out'.pkt.data
              differ == {f \in DOMAIN old \cap DOMAIN new : old[f] # new[f]}
          IN  /\ out'.compared
              /\ DOMAIN out'.changes = differ
              /\ \A f \in differ : out'.changes[f] = <<old[f], new[f]>>
              /\ Len(out'.warnings) = Cardinality(differ)
              /\ Range(out'.warnings) =
                    {<<Designation(out'.drone), f, old[f], new[f]>> : f \in differ}
      ]_vars

\* C2 witness: a compared packet with one changed key, one unchanged key and a new key
C2_Witness ==
    /\ out.listener = "checksum" /\ out.compared
    /\ Cardinality(DOMAIN out.changes) = 1
    /\ Len(out.warnings) = 1
    /\ Cardinality(DOMAIN out.pkt.data) = 3

\* C3: for a checksum packet processed when a snapshot exists, an 'object
\* updated' event is emitted if and only if at least one change was recorded,
\* and then exactly one.
C3_EventIffChange ==
    (out.listener = "checksum" /\ out.compared) =>
        Len(out.events) = (IF DOMAIN out.changes # {} THEN 1 ELSE 0)

\* C4: the first checksum packet of a drone is not diffed and emits no event and
\* no warning; it only stores the packet as the drone's snapshot.
C4_FirstPacketOnlyStores ==
    [][ (IsChecksumCall /\ lastpkt[out'.drone] = NoPkt) =>
          /\ ~out'.compared
          /\ out'.events = <<>> /\ out'.warnings = <<>> /\ out'.requests = <<>>
          /\ out'.raised = "none"
          /\ JSON_OLD_checksums' =
                [JSON_OLD_checksums EXCEPT ![out'.drone] = JSONstr(out'.pkt)]
          /\ store' = store
      ]_vars

\* C4 witness: a first packet, with files in it, was stored and not compared
C4_Witness ==
    /\ out.listener = "checksum" /\ out.pkt.discovertype = "checksum"
    /\ ~out.compared
    /\ DOMAIN out.pkt.data # {}
    /\ JSON_OLD_checksums[out.drone] = JSONstr(out.pkt)

\* C5: after every checksum packet the drone's snapshot is that packet, so each
\* packet is diffed against the packet before it only: a file is reported at a
\* packet exactly when its checksum differs from the one in the preceding
\* packet, and is not reported while its checksum stays the same.
C5_DiffAgainstPrecedingPacket ==
    [][ IsChecksumCall =>
          /\ JSON_OLD_checksums'[out'.drone] = JSONstr(out'.pkt)
          /\ lastpkt[out'.drone] # NoPkt =>
                LET prev == lastpkt[out'.drone].data
                    new == out'.pkt.data
                IN  \A f \in Range(Files) :
                       f \in DOMAIN out'.changes <=>
                          (f \in DOMAIN prev /\ f \in DOMAIN new /\ prev[f] # new[f])
      ]_vars

\* C5 witness: a later packet reported a change and became the snapshot
C5_Witness ==
    /\ out.listener = "checksum" /\ out.compared
    /\ DOMAIN out.changes # {}
    /\ DOMAIN out.changes # DOMAIN out.pkt.data
    /\ JSON_OLD_checksums[out.drone] = JSONstr(out.pkt)
    /\ lastpkt[out.drone] = out.pkt

(***************************************************************************)
(* Properties of the link discovery listener                               *)
(***************************************************************************)
\* the step is a call of processpkt_linkdiscovery (out' describes the call)
IsLinkCall ==
    out'.listener = "link" /\ out'.changed /\ out'.pkt.discovertype = "__LinkDiscovery"

\* the last call was a call of processpkt_linkdiscovery with ChassisId and ports
WasFullLinkCall ==
    /\ out.listener = "link" /\ out.changed /\ out.pkt.discovertype = "__LinkDiscovery"
    /\ {"ChassisId", "ports"} \subseteq DOMAIN out.pkt.data

NodeIds(st) == 1..Len(st.nodes)

\* the SystemNodes of a chassis in a drone's domain
SwitchNodes(st, drone, chassisid) ==
    {n \in NodeIds(st) :
        /\ st.nodes[n].cls = "SystemNode"
        /\ st.nodes[n].attrs.domain.v = Domain(drone)
        /\ st.nodes[n].attrs.designation.v = chassisid.v}

\* the NICNodes of a port of a packet
PortNodes(st, drone, chassisid, port) ==
    {n \in NodeIds(st) :
        /\ st.nodes[n].cls = "NICNode"
        /\ st.nodes[n].attrs.domain.v = Domain(drone)
        /\ st.nodes[n].attrs.macaddr.v =
              (IF "sourceMAC" \in DOMAIN port THEN port.sourceMAC.v ELSE chassisid.v)
        /\ st.nodes[n].attrs.scope.v = "global"
        /\ st.nodes[n].attrs.ifname.v = port.PortId.v}

\* the relationships of a type from node a to node b
Edges(st, a, rtype, b) ==
    {e \in 1..Len(st.rels) :
        st.rels[e].from = a /\ st.rels[e].type = rtype /\ st.rels[e].to = b}

\* the NICs a drone owns
OwnedNICs(st, drone) ==
    {n \in NodeIds(st) :
        /\ st.nodes[n].cls = "NICNode"
        /\ \E d \in NodeIds(st) :
              /\ st.nodes[d].cls = "Drone"
              /\ st.nodes[d].attrs.designation.v = Designation(drone)
              /\ Edges(st, d, "nicowner", n) # {}}

NoDuplicateEdges(st, rtype) ==
    \A e, f \in 1..Len(st.rels) :
        (st.rels[e].type = rtype /\ st.rels[f].type = rtype
         /\ st.rels[e].from = st.rels[f].from /\ st.rels[e].to = st.rels[f].to) => e = f

\* C1: processing the same __LinkDiscovery packet (with ChassisId and ports)
\* twice for the same drone leaves the graph as the first processing left it:
\* exactly one SwitchNode, exactly one NICNode per port of the packet, and no
\* duplicate nicowner or wiredto relationship.
C1_SamePacketTwice ==
    [][ (WasFullLinkCall /\ IsLinkCall /\ out'.pkt = out.pkt /\ out'.drone = out.drone) =>
          LET data == out.pkt.data IN
          /\ store' = store
          /\ Cardinality(SwitchNodes(store', out.drone, data.ChassisId)) = 1
          /\ \A i \in 1..Len(data.ports) :
                Cardinality(PortNodes(store', out.drone, data.ChassisId, data.ports[i])) = 1
          /\ NoDuplicateEdges(store', "nicowner")
          /\ NoDuplicateEdges(store', "wiredto")
      ]_vars

\* C6: a bad port (ConnectsToHost naming another host, ConnectsToHost or
\* ConnectsToInterface missing, ConnectsToInterface naming no NIC of the host)
\* never aborts the packet: no exception escapes and every port of the packet
\* has its NICNode, owned (nicowner) by the switch.
C6_BadPortNeverAborts ==
    WasFullLinkCall =>
        LET data == out.pkt.data IN
        /\ out.raised = "none"
        /\ \A i \in 1..Len(data.ports) :
              \E n \in PortNodes(store, out.drone, data.ChassisId, data.ports[i]) :
                 \E sw \in SwitchNodes(store, out.drone, data.ChassisId) :
                    Edges(store, sw, "nicowner", n) # {}

\* C7: across any sequence of __LinkDiscovery packets the graph holds at most
\* one SystemNode per (domain, designation) and at most one NICNode per
\* (domain, macaddr, scope, ifname); discovering a chassis or a port again
\* refreshes the attributes of its node.
C7_OneNodePerKey ==
    /\ \A m, n \in NodeIds(store) :
          (/\ store.nodes[m].cls = store.nodes[n].cls
           /\ store.nodes[m].cls \in {"SystemNode", "NICNode"}
           /\ store.nodes[m].attrs.domain.v = store.nodes[n].attrs.domain.v
           /\ IF store.nodes[m].cls = "SystemNode"
              THEN store.nodes[m].attrs.designation.v = store.nodes[n].attrs.designation.v
              ELSE /\ store.nodes[m].attrs.macaddr.v = store.nodes[n].attrs.macaddr.v
                   /\ store.nodes[m].attrs.scope.v = store.nodes[n].attrs.scope.v
                   /\ store.nodes[m].attrs.ifname.v = store.nodes[n].attrs.ifname.v)
          => m = n
    /\ (WasFullLinkCall /\ out.raised = "none") =>
          LET data == out.pkt.data IN
          /\ \A sw \in SwitchNodes(store, out.drone, data.ChassisId) :
                \A key \in DOMAIN data \ {"ports", "SystemCapabilities"} :
                   key \in DOMAIN store.nodes[sw].attrs
                   /\ store.nodes[sw].attrs[key].v = data[key].v
          /\ \A i \in 1..Len(data.ports) :
                \A n \in PortNodes(store, out.drone, data.ChassisId, data.ports[i]) :
                   \A key \in DOMAIN data.ports[i] :
                      key \in DOMAIN store.nodes[n].attrs
                      /\ store.nodes[n].attrs[key].v = data.ports[i][key].v

\* C7 witness: a port that host1 discovered was discovered again by host2, with
\* other attributes; its one node is wired to a NIC of each
C7_Witness ==
    /\ WasFullLinkCall /\ out.raised = "none" /\ npkts = 2
    /\ Len(out.pkt.data.ports) = 2
    /\ out.drone = "host2"
    /\ \E n \in PortNodes(store, out.drone, out.pkt.data.ChassisId, out.pkt.data.ports[1]) :
          /\ \E h \in OwnedNICs(store, "host1") : Edges(store, n, "wiredto", h) # {}
          /\ \E h \in OwnedNICs(store, "host2") : Edges(store, n, "wiredto", h) # {}
    /\ "ManagementAddress" \notin DOMAIN out.pkt.data
    /\ \E sw \in SwitchNodes(store, out.drone, out.pkt.data.ChassisId) :
          "ManagementAddress" \in DOMAIN store.nodes[sw].attrs

\* C8: for a port of a packet with ConnectsToHost naming the discovering drone
\* and ConnectsToInterface = i, where the drone owns a NIC with ifname i,
\* processing the packet leaves exactly one wiredto relationship from the
\* port's NICNode to that NIC and creates none to a NIC of the drone with
\* another ifname; repeating the packet adds no wiredto relationship.
C8_WiredToMatchingNIC ==
    [][ (IsLinkCall /\ {"ChassisId", "ports"} \subseteq DOMAIN out'.pkt.data) =>
          LET data == out'.pkt.data
              drone == out'.drone
          IN  \A i \in 1..Len(data.ports) :
                LET port == data.ports[i] IN
                (/\ {"ConnectsToHost", "ConnectsToInterface"} \subseteq DOMAIN port
                 /\ port.ConnectsToHost.v = Designation(drone)
                 /\ \E h \in OwnedNICs(store, drone) :
                       store.nodes[h].attrs.ifname.v = port.ConnectsToInterface.v)
                =>
                /\ \E n \in PortNodes(store', drone, data.ChassisId, port) :
                      \E h \in OwnedNICs(store', drone) :
                         /\ store'.nodes[h].attrs.ifname.v = port.ConnectsToInterface.v
                         /\ Cardinality(Edges(store', n, "wiredto", h)) = 1
                /\ \A e \in (Len(store.rels) + 1)..Len(store'.rels) :
                      (/\ store'.rels[e].type = "wiredto"
                       /\ store'.rels[e].from \in
                             PortNodes(store', drone, data.ChassisId, port))
                      => /\ store'.rels[e].to \in OwnedNICs(store', drone)
                         /\ store'.nodes[store'.rels[e].to].attrs.ifname.v
                               = port.ConnectsToInterface.v
                /\ (out.listener = "link" /\ out'.pkt = out.pkt /\ out'.drone = out.drone)
                      => \A e \in 1..Len(store'.rels) :
                            store'.rels[e].type = "wiredto" => e <= Len(store.rels)
      ]_vars

\* C9: a __LinkDiscovery packet without ChassisId is logged and dropped: the
\* graph is unchanged, no exception is raised, and the packet after it is
\* processed as usual (its switch is in the graph, with a role).
C9_MissingChassisIdDropsPacket ==
    [][ /\ (IsLinkCall /\ "ChassisId" \notin DOMAIN out'.pkt.data) =>
              /\ store' = store
              /\ out'.raised = "none"
              /\ Len(out'.warnings) = 1
              /\ out'.errors = <<>> /\ out'.requests = <<>> /\ out'.events = <<>>
        /\ (/\ out.listener = "link" /\ out.pkt.discovertype = "__LinkDiscovery"
             /\ "ChassisId" \notin DOMAIN out.pkt.data
             /\ IsLinkCall /\ "ChassisId" \in DOMAIN out'.pkt.data) =>
              \E sw \in SwitchNodes(store', out'.drone, out'.pkt.data.ChassisId) :
                 store'.nodes[sw].roles # {}
      ]_vars

\* C9 witness: a packet with ports and no ChassisId was dropped after another
\* packet had put a switch into the graph
C9_Witness ==
    /\ out.listener = "link" /\ out.pkt.discovertype = "__LinkDiscovery"
    /\ "ChassisId" \notin DOMAIN out.pkt.data
    /\ "ManagementAddress" \in DOMAIN out.pkt.data
    /\ Len(out.pkt.data.ports) > 0
    /\ Len(out.warnings) = 1
    /\ Len(store.nodes) > Len(InitialStore.nodes)

\* the devices of a netconfig packet that are up: operstate "up", carrier
\* "True", an address that is neither empty nor all zeros
UpDevices(data) ==
    {dev \in DOMAIN data :
        /\ {"operstate", "carrier", "address"} \subseteq DOMAIN data[dev]
        /\ data[dev].operstate.v = "up"
        /\ data[dev].carrier.v = "True"
        /\ data[dev].address.v \notin {"", "00-00-00-00-00-00"}}

\* C10: a netconfig packet with N >= 1 devices that are up causes exactly one
\* request_discovery call, whose batch holds exactly N parameter sets, one per
\* such device (instance '#SWITCH_' + name, the name, protocols lldp and cdp);
\* a packet with no such device causes no request_discovery call.
C10_OneBatchedRequest ==
    (out.listener = "link" /\ out.changed /\ out.pkt.discovertype = "netconfig") =>
        LET up == UpDevices(out.pkt.data) IN
        IF up = {} THEN out.requests = <<>>
        ELSE /\ Len(out.requests) = 1
             /\ out.requests[1].drone = out.drone
             /\ Len(out.requests[1].batch) = Cardinality(up)
             /\ \A dev \in up :
                   Cardinality({i \in 1..Len(out.requests[1].batch) :
                       /\ out.requests[1].batch[i].CONFIGNAME_INSTANCE = "#SWITCH_" \o dev
                       /\ out.requests[1].batch[i].CONFIGNAME_DEVNAME = dev
                       /\ out.requests[1].batch[i].CONFIGNAME_SWPROTOS = <<"lldp", "cdp">>})
                     = 1

\* C10 witness: one request for two devices that are up
C10_Witness ==
    /\ out.listener = "link" /\ out.changed /\ out.pkt.discovertype = "netconfig"
    /\ Cardinality(UpDevices(out.pkt.data)) = 2
    /\ Len(out.requests) = 1
    /\ Len(out.requests[1].batch) = 2

\* the devices named by the parameter sets of the requests of the last call
RequestedDevices ==
    UNION {{out.requests[r].batch[i].CONFIGNAME_DEVNAME :
                i \in 1..Len(out.requests[r].batch)} : r \in 1..Len(out.requests)}

\* C11: a device entry of a netconfig packet is in the switch-discovery batch
\* if and only if its operstate is 'up', its carrier is 'True' and its address
\* is present and neither empty nor the all-zero MAC address; a device whose
\* operstate is 'down' never is, and one with operstate 'up', carrier 'True'
\* and address aa-bb-cc-dd-ee-ff always is.
C11_LinkUpFilter ==
    (out.listener = "link" /\ out.changed /\ out.pkt.discovertype = "netconfig") =>
        \A dev \in DOMAIN out.pkt.data :
            LET devinfo == out.pkt.data[dev] IN
            /\ dev \in RequestedDevices <=>
                  /\ "operstate" \in DOMAIN devinfo /\ devinfo.operstate.v = "up"
                  /\ "carrier" \in DOMAIN devinfo /\ devinfo.carrier.v = "True"
                  /\ "address" \in DOMAIN devinfo
                  /\ devinfo.address.v # "" /\ devinfo.address.v # "00-00-00-00-00-00"
            /\ ("operstate" \in DOMAIN devinfo /\ devinfo.operstate.v = "down")
                  => dev \notin RequestedDevices
            /\ devinfo = [operstate |-> Text("up"), carrier |-> Bool("True"),
                          address |-> Addr("aa-bb-cc-dd-ee-ff")]
                  => dev \in RequestedDevices

\* C11 witness: of two devices, the one that is up is in the batch and the one
\* whose operstate is down is not
C11_Witness ==
    /\ out.listener = "link" /\ out.changed /\ out.pkt.discovertype = "netconfig"
    /\ DOMAIN out.pkt.data = {"eth0", "eth1"}
    /\ out.pkt.data["eth0"].operstate.v = "down"
    /\ out.pkt.data["eth1"] = [operstate |-> Text("up"), carrier |-> Bool("True"),
                               address |-> Addr("aa-bb-cc-dd-ee-ff")]
    /\ RequestedDevices = {"eth1"}

(***************************************************************************)
(* Properties of the checksum listener: tcpdiscovery packets               *)
(***************************************************************************)
\* the last call was a call of processtcpdiscoverypkt
WasTcpDiscoveryCall ==
    out.listener = "checksum" /\ out.pkt.discovertype = "tcpdiscovery"

\* the file list of the n-th request of the last call
FileListOf(n) == out.requests[n].params.tree.parameters.ASSIM_filelist

\* the last component of a path
Basename(path) ==
    CASE path \in {"/usr/bin/java", "/opt/jdk/bin/java", "java"} -> "java"
      [] path = "/usr/sbin/sshd" -> "sshd"
      [] OTHER -> path

\* the segments of the tokens of a command line that follow a '-cp' token
ClasspathSegments(procinfo) ==
    IF "cmdline" \notin DOMAIN procinfo THEN {}
    ELSE UNION {Range(Split(procinfo.cmdline[j + 1])) :
                  j \in {k \in 1..(Len(procinfo.cmdline) - 1) : procinfo.cmdline[k] = "-cp"}}

\* the process entries of a packet that have an 'exe' field
ExeEntries(data) == {data[p] : p \in {q \in DOMAIN data : "exe" \in DOMAIN data[q]}}

\* C12: the file list of the checksum probe built from a tcpdiscovery packet
\* is exactly the base list /bin/sh, /bin/bash, /bin/login, /usr/bin/passwd
\* followed by, for each process entry with an 'exe' field, that path (and
\* classpath segments for java processes) and nothing else.
C12_FileListIsBasePlusExes ==
    WasTcpDiscoveryCall =>
        /\ Len(out.requests) = 1
        /\ LET fl == FileListOf(1)
               entries == ExeEntries(out.pkt.data)
           IN  /\ Len(fl) >= 4
               /\ SubSeq(fl, 1, 4) = <<"/bin/sh", "/bin/bash", "/bin/login", "/usr/bin/passwd">>
               /\ \A e \in entries : \E i \in 5..Len(fl) : fl[i] = e.exe
               /\ \A i \in 5..Len(fl) :
                     \E e \in entries :
                        \/ fl[i] = e.exe
                        \/ Basename(e.exe) = "java" /\ fl[i] \in ClasspathSegments(e)

\* C13: for every process entry whose executable's basename is 'java' and
\* whose cmdline has a '-cp' token followed by another token, every
\* ':'-separated segment of that token is in the file list, alongside the
\* executable; the cmdline of a process that is not java is never parsed, and
\* a '-cp' that is the last token contributes nothing.
C13_JavaClasspath ==
    WasTcpDiscoveryCall =>
        /\ Len(out.requests) = 1
        /\ LET fl == Range(FileListOf(1))
               entries == ExeEntries(out.pkt.data)
               java == {e \in entries : Basename(e.exe) = "java"}
           IN  /\ \A e \in java : e.exe \in fl /\ ClasspathSegments(e) \subseteq fl
               /\ \A e \in entries \ java :
                     \A x \in ClasspathSegments(e) :
                        x \in fl => \E j \in java : x \in ClasspathSegments(j)
               /\ \A e \in entries :
                     ("cmdline" \in DOMAIN e /\ e.cmdline[Len(e.cmdline)] = "-cp")
                        => "-cp" \notin fl

(***************************************************************************)
(* Properties of the link discovery listener: the graph over time          *)
(***************************************************************************)
\* every node and every relationship of st is in st2, at the same place
Keeps(st, st2) ==
    /\ Len(st2.nodes) >= Len(st.nodes)
    /\ \A n \in NodeIds(st) :
          /\ st2.nodes[n].cls = st.nodes[n].cls
          /\ KeyOf(st.nodes[n].cls, st2.nodes[n].attrs) = KeyOf(st.nodes[n].cls, st.nodes[n].attrs)
          /\ st.nodes[n].roles \subseteq st2.nodes[n].roles
    /\ Len(st2.rels) >= Len(st.rels)
    /\ \A e \in 1..Len(st.rels) :
          /\ st2.rels[e].from = st.rels[e].from
          /\ st2.rels[e].type = st.rels[e].type
          /\ st2.rels[e].to = st.rels[e].to

\* the ports wired to a NIC
WiredPorts(st, nic) ==
    {n \in NodeIds(st) : Edges(st, n, "wiredto", nic) # {}}

\* C14: no discovery packet removes a node or a relationship from the graph;
\* a wiredto relationship between a host NIC and a port is still there after a
\* later packet reports the host NIC connected to another port (both the old
\* and the new relationship are then present).
C14_NothingIsRemoved ==
    [][ /\ Keeps(store, store')
        /\ \A nic \in NodeIds(store) : WiredPorts(store, nic) \subseteq WiredPorts(store', nic)
      ]_vars

\* C14 witness: eth0 of host1 was reported on one port, then on another, and is
\* wired to both
C14_Witness ==
    /\ WasFullLinkCall /\ npkts = 2 /\ out.drone = "host1"
    /\ \E nic \in OwnedNICs(store, "host1") :
          /\ store.nodes[nic].attrs.ifname.v = "eth0"
          /\ Cardinality(WiredPorts(store, nic)) = 2
          /\ \E e \in 1..Len(store.rels) :
                /\ store.rels[e].type = "wiredto" /\ store.rels[e].to = nic
                /\ e = Len(store.rels)

(***************************************************************************)
(* Properties of the link discovery listener: the management address       *)
(***************************************************************************)
\* the nodes management-address resolution makes: admin and management NICs
\* and IP addresses
MgmtNodes(st) ==
    {n \in NodeIds(st) :
        \/ st.nodes[n].cls = "IPaddrNode"
        \/ /\ st.nodes[n].cls = "NICNode"
           /\ st.nodes[n].attrs.ifname.v \in {"(adminNIC)", "(ManagementAddress)"}}

\* their classes and keys
MgmtKeys(st) ==
    {<<st.nodes[n].cls, KeyOf(st.nodes[n].cls, st.nodes[n].attrs)>> : n \in MgmtNodes(st)}

\* the relationships to and from them: <<from, type, to>>
MgmtRels(st) ==
    {<<st.rels[e].from, st.rels[e].type, st.rels[e].to>> :
        e \in {f \in 1..Len(st.rels) :
                  st.rels[f].from \in MgmtNodes(st) \/ st.rels[f].to \in MgmtNodes(st)}}

\* the number of relationships to and from them
NumMgmtRels(st) ==
    Cardinality({f \in 1..Len(st.rels) :
                   st.rels[f].from \in MgmtNodes(st) \/ st.rels[f].to \in MgmtNodes(st)})

\* the node of a class with a key
NodeWithKey(st, cls, key) ==
    CHOOSE n \in NodeIds(st) : st.nodes[n].cls = cls /\ KeyOf(cls, st.nodes[n].attrs) = key

\* C15: management-address resolution does exactly this to the graph:
\* (1) management address IPv4/IPv6 and chassis id link-layer: the NICNode
\* (switch domain, mac = chassis id, ifname '(adminNIC)') and the IPaddrNode of
\* the management address exist once, with one nicowner switch -> NIC and one
\* ipowner NIC -> IP; (2) management address IP-typed and chassis id not
\* link-layer: nothing (a warning exactly when the two differ); (3) management
\* address link-layer: the NICNode (mac = management address, ifname
\* '(ManagementAddress)') exists once with one nicowner switch -> NIC; (4) any
\* other family: nothing.
C15_MgmtAddrActions ==
    [][ (IsLinkCall /\ {"ChassisId", "ManagementAddress"} \subseteq DOMAIN out'.pkt.data) =>
          LET data == out'.pkt.data
              chassis == data.ChassisId.v
              mgmt == data.ManagementAddress.v
              domain == Domain(out'.drone)
              mgmtIsIP == mgmt \in {MgmtIP, ChassisIP, MgmtIP6}
              mgmtIsMAC == mgmt \in {MgmtMAC}
              chassisIsMAC == chassis \in {ChassisMAC}
              switch == NodeWithKey(store', "SystemNode", <<domain, chassis>>)
              adminkey == <<"NICNode", <<domain, chassis, "global", "(adminNIC)">>>>
              ipkey == <<"IPaddrNode", <<domain, mgmt, "None", "unknown">>>>
              mgmtkey == <<"NICNode", <<domain, mgmt, "global", "(ManagementAddress)">>>>
              nodeof(k) == NodeWithKey(store', k[1], k[2])
              unique == /\ Cardinality(MgmtNodes(store')) = Cardinality(MgmtKeys(store'))
                        /\ NumMgmtRels(store') = Cardinality(MgmtRels(store'))
          IN  /\ unique
              /\ IF mgmtIsIP /\ chassisIsMAC
                 THEN /\ MgmtKeys(store') = MgmtKeys(store) \cup {adminkey, ipkey}
                      /\ MgmtRels(store') = MgmtRels(store)
                            \cup {<<switch, "nicowner", nodeof(adminkey)>>,
                                  <<nodeof(adminkey), "ipowner", nodeof(ipkey)>>}
                 ELSE IF mgmtIsIP
                 THEN /\ MgmtKeys(store') = MgmtKeys(store)
                      /\ MgmtRels(store') = MgmtRels(store)
                      /\ (out'.warnings # <<>>) <=> (mgmt # chassis)
                 ELSE IF mgmtIsMAC
                 THEN /\ MgmtKeys(store') = MgmtKeys(store) \cup {mgmtkey}
                      /\ MgmtRels(store') = MgmtRels(store)
                            \cup {<<switch, "nicowner", nodeof(mgmtkey)>>}
                 ELSE /\ MgmtKeys(store') = MgmtKeys(store)
                      /\ MgmtRels(store') = MgmtRels(store)
      ]_vars

\* C15 witness: a switch with a MAC chassis id reported a management MAC
\* address, then a management IP address: it owns both NICs, and the admin NIC
\* owns the IP address
C15_Witness ==
    /\ WasFullLinkCall /\ npkts = 2
    /\ "ManagementAddress" \in DOMAIN out.pkt.data
    /\ out.pkt.data.ManagementAddress.v = MgmtIP
    /\ out.pkt.data.ChassisId.v = ChassisMAC
    /\ Cardinality(MgmtNodes(store)) = 3
    /\ MgmtKeys(store) =
          {<<"NICNode", <<"global", ChassisMAC, "global", "(adminNIC)">>>>,
           <<"IPaddrNode", <<"global", MgmtIP, "None", "unknown">>>>,
           <<"NICNode", <<"global", MgmtMAC, "global", "(ManagementAddress)">>>>}
    /\ Cardinality(MgmtRels(store)) = 3

(***************************************************************************)
(* Properties of the checksum listener: what each kind of packet touches   *)
(***************************************************************************)
\* C16: in the checksum listener the kind of the packet decides the effect: a
\* tcpdiscovery packet issues a discovery request, neither reads nor changes
\* the drone's snapshot and emits no event; a checksum packet may change the
\* snapshot and emit an event and issues no discovery request; a packet of
\* another kind is logged, raises no exception and changes neither the
\* snapshot nor the requests nor the events.
C16_KindDecidesEffect ==
    [][ out'.listener = "checksum" =>
          /\ store' = store
          /\ out'.raised = "none"
          /\ \A d \in Drones \ {out'.drone} : JSON_OLD_checksums'[d] = JSON_OLD_checksums[d]
          /\ IF out'.pkt.discovertype = "tcpdiscovery"
             THEN /\ Len(out'.requests) = 1
                  /\ out'.events = <<>> /\ ~out'.compared /\ out'.warnings = <<>>
                  /\ JSON_OLD_checksums' = JSON_OLD_checksums
                  /\ out' = checksum_processpkt(out'.drone, NoSnapshot, out'.pkt).out
             ELSE IF out'.pkt.discovertype = "checksum"
             THEN /\ out'.requests = <<>>
                  /\ Len(out'.events) <= 1
             ELSE /\ out'.stderr = <<"OOPS! bad packet type">>
                  /\ JSON_OLD_checksums' = JSON_OLD_checksums
                  /\ out'.requests = <<>> /\ out'.events = <<>>
                  /\ ~out'.compared /\ out'.warnings = <<>>
      ]_vars

\* C16 witness: a tcpdiscovery packet was handled for a drone that has a
\* snapshot: the request is there and the snapshot is still the last checksum packet
C16_Witness ==
    /\ WasTcpDiscoveryCall
    /\ Len(out.requests) = 1 /\ out.events = <<>>
    /\ lastpkt[out.drone] # NoPkt
    /\ DOMAIN lastpkt[out.drone].data # {}
    /\ JSON_OLD_checksums[out.drone] = JSONstr(lastpkt[out.drone])

\* C17: every tcpdiscovery packet, also one without a process that has an
\* 'exe' field, causes exactly one request_discovery call on the drone it came
\* from, named '_auto-checksums' with interval 30; the file list of the
\* request depends on that packet only: a path appended for an earlier packet
\* is in a later request only if the later packet has it too.
C17_OneRequestPerPacket ==
    [][ (out'.listener = "checksum" /\ out'.pkt.discovertype = "tcpdiscovery") =>
          /\ Len(out'.requests) = 1
          /\ out'.requests[1].drone = out'.drone
          /\ out'.requests[1].name = "_auto-checksums"
          /\ out'.requests[1].interval = 30
          /\ LET fl == out'.requests[1].params.tree.parameters.ASSIM_filelist
                 entries == ExeEntries(out'.pkt.data)
             IN  /\ SubSeq(fl, 1, Len(ASSIM_filelist)) = ASSIM_filelist
                 /\ \A i \in (Len(ASSIM_filelist) + 1)..Len(fl) :
                       \E e \in entries : fl[i] = e.exe \/ fl[i] \in ClasspathSegments(e)
                 /\ entries = {} => fl = ASSIM_filelist
      ]_vars

\* C17 witness: a packet whose only process has no 'exe' field caused one
\* request, for the fixed files only
C17_Witness ==
    /\ WasTcpDiscoveryCall
    /\ DOMAIN out.pkt.data = {"proc2"}
    /\ "exe" \notin DOMAIN out.pkt.data["proc2"]
    /\ Len(out.requests) = 1
    /\ out.requests[1].interval = 30
    /\ FileListOf(1) = ASSIM_filelist

\* the changes between two checksum packets of a drone, the first maybe none
ChangesBetween(prev, pkt) ==
    IF prev = NoPkt THEN <<>>
    ELSE [f \in {g \in DOMAIN prev.data \cap DOMAIN pkt.data : prev.data[g] # pkt.data[g]}
            |-> <<prev.data[f], pkt.data[f]>>]

\* C18: checksum packets of different drones may be interleaved in any order
\* without affecting each other: a checksum packet of drone A neither reads
\* nor changes the snapshot of drone B and emits no event for B, so the changes
\* reported for a drone are those between its own consecutive packets, as if
\* its packets had been processed alone.
C18_DronesAreIndependent ==
    [][ IsChecksumCall =>
          /\ \A d \in Drones \ {out'.drone} :
                /\ JSON_OLD_checksums'[d] = JSON_OLD_checksums[d]
                /\ lastpkt'[d] = lastpkt[d]
          /\ \A i \in 1..Len(out'.events) : out'.events[i].drone = out'.drone
          /\ \A i \in 1..Len(out'.warnings) : out'.warnings[i][1] = Designation(out'.drone)
          /\ out'.compared <=> lastpkt[out'.drone] # NoPkt
          /\ out'.changes = ChangesBetween(lastpkt[out'.drone], out'.pkt)
          /\ \A i \in 1..Len(out'.events) :
                out'.events[i].extrainfo.changes = ChangesBetween(lastpkt[out'.drone], out'.pkt)
      ]_vars

\* C18 witness: a packet of host2 was compared with host2's packet before it
\* and reported a change, while host1 has another snapshot, which it keeps
C18_Witness ==
    /\ out.listener = "checksum" /\ out.compared /\ out.drone = "host2"
    /\ DOMAIN out.changes # {}
    /\ lastpkt["host1"] # NoPkt
    /\ lastpkt["host1"] # lastpkt["host2"]
    /\ DOMAIN lastpkt["host1"].data = DOMAIN lastpkt["host2"].data
    /\ JSON_OLD_checksums["host1"] = JSONstr(lastpkt["host1"])
    /\ JSON_OLD_checksums["host2"] = JSONstr(lastpkt["host2"])

(***************************************************************************)
(* Properties of the link discovery listener: unchanged discovery          *)
(***************************************************************************)
\* C19: the link discovery listener ignores a packet delivered with the
\* discovery-changed flag false: for netconfig and for __LinkDiscovery packets
\* the graph is unchanged and no discovery request is issued.
C19_UnchangedPacketIsIgnored ==
    [][ (out'.listener = "link" /\ ~out'.changed) =>
          /\ store' = store
          /\ out'.requests = <<>>
          /\ out'.raised = "none"
          /\ out'.warnings = <<>> /\ out'.errors = <<>> /\ out'.stderr = <<>>
      ]_vars

\* C19 witness: after a changed packet put a switch into the graph, an
\* unchanged packet of another switch, with a port and a management address,
\* left the graph without that switch
C19_Witness ==
    /\ out.listener = "link" /\ ~out.changed /\ npkts = 2
    /\ out.pkt.discovertype = "__LinkDiscovery"
    /\ {"ChassisId", "ports", "ManagementAddress"} \subseteq DOMAIN out.pkt.data
    /\ out.pkt.data.ChassisId.v = ChassisIP
    /\ SwitchNodes(store, out.drone, out.pkt.data.ChassisId) = {}
    /\ SwitchNodes(store, out.drone, Text(ChassisMAC)) # {}
    /\ MgmtNodes(store) = {}

(***************************************************************************)
(* Properties of the link discovery listener: ownership and wiring         *)
(***************************************************************************)
\* the nodes of a class that own (nicowner) a NIC
Owners(st, cls, nic) ==
    {n \in NodeIds(st) : st.nodes[n].cls = cls /\ Edges(st, n, "nicowner", nic) # {}}

\* C20: after any sequence of __LinkDiscovery packets, every NICNode made for
\* a port or a management address is owned (nicowner) by the SwitchNode of the
\* packet that reported it, and every wiredto relationship the listener made
\* goes from such a port NIC to a NIC that the discovering host owns and whose
\* ifname is the port's ConnectsToInterface; also when the processing of the
\* ports stopped early on a bad port.
C20_OwnedAndWired ==
    [][ (IsLinkCall /\ "ChassisId" \in DOMAIN out'.pkt.data) =>
          LET data == out'.pkt.data
              drone == out'.drone
              ports == IF "ports" \in DOMAIN data THEN data.ports ELSE <<>>
              sws == SwitchNodes(store', drone, data.ChassisId)
          IN  /\ \A n \in NodeIds(store') \ NodeIds(store) :
                    store'.nodes[n].cls = "NICNode" =>
                       \E sw \in sws : Edges(store', sw, "nicowner", n) # {}
              /\ \A e \in (Len(store.rels) + 1)..Len(store'.rels) :
                    store'.rels[e].type = "wiredto" =>
                       \E i \in 1..Len(ports) :
                          /\ store'.rels[e].from \in
                                PortNodes(store', drone, data.ChassisId, ports[i])
                          /\ \E sw \in sws :
                                Edges(store', sw, "nicowner", store'.rels[e].from) # {}
                          /\ store'.rels[e].to \in OwnedNICs(store', drone)
                          /\ "ConnectsToInterface" \in DOMAIN ports[i]
                          /\ store'.nodes[store'.rels[e].to].attrs.ifname.v
                                = ports[i].ConnectsToInterface.v
              /\ \A n \in NodeIds(store') \ NodeIds(InitialStore) :
                    store'.nodes[n].cls = "NICNode" => Owners(store', "SystemNode", n) # {}
              /\ \A e \in 1..Len(store'.rels) :
                    store'.rels[e].type = "wiredto" =>
                       /\ Owners(store', "SystemNode", store'.rels[e].from) # {}
                       /\ Owners(store', "Drone", store'.rels[e].to) # {}
      ]_vars

\* C20 witness: the first port of a packet was wired to eth0 of host1 and the
\* second port, which names another host, stopped the processing; both ports
\* have their NICNode, owned by the switch
C20_Witness ==
    /\ WasFullLinkCall /\ out.raised = "AssertionError" /\ out.drone = "host1"
    /\ Len(out.pkt.data.ports) = 2
    /\ \A i \in 1..2 :
          \E n \in PortNodes(store, out.drone, out.pkt.data.ChassisId, out.pkt.data.ports[i]) :
             \E sw \in SwitchNodes(store, out.drone, out.pkt.data.ChassisId) :
                Edges(store, sw, "nicowner", n) # {}
    /\ \E n \in PortNodes(store, out.drone, out.pkt.data.ChassisId, out.pkt.data.ports[1]) :
          \E h \in OwnedNICs(store, "host1") : Edges(store, n, "wiredto", h) # {}

====
